---- MODULE Spec2Model ----
(***************************************************************************)
(* A model of pytube.contrib.channel.Channel: the html_url switch, the     *)
(* three-strategy location of the item list in _extract_videos, the        *)
(* continuation capture, the two-pass identifier extraction and the        *)
(* continuation request built by _build_continuation_url.                  *)
(*                                                                         *)
(* JSON values are abstracted by the lookups the code performs on them: a  *)
(* node is present, absent (KeyError / IndexError) or of a wrong type      *)
(* (TypeError, or AttributeError where a string method is called).         *)
(***************************************************************************)
EXTENDS Integers, Sequences, FiniteSets, TLC

\* ---------------------------------------------------------------- bounds
MaxItems == 3      \* longest item list of the item-oriented documents
NumIds == 3        \* distinct video identifiers
MaxTabs == 2       \* longest tabs list of the shape-oriented documents
MaxSeqs == 2       \* lazily produced sequences alive on one Channel

\* ---------------------------------------------------------------- values
None == "None"
NoHtml == <<>>                \* self._html is None
Unbound == "unbound"          \* a Python local that was never assigned
Ids == 1..NumIds
Tokens == {"T1"}
Visitors == {"V1", "V2"}

\* A URL is the sequence of its "/"-separated pieces.
channel_url == <<"https:", "", "www.youtube.com", "@channel">>
channel_videos_url == Append(channel_url, "videos")
channel_shorts_url == Append(channel_url, "shorts")
channel_live_url == Append(channel_url, "streams")
channel_about_url == Append(channel_url, "about")

\* str.rsplit("/", maxsplit=1)[-1]: the piece after the last "/".
RsplitLast(url) == url[Len(url)]

\* f"/watch?v={id}"
WatchUrl(id) == <<"/watch?v=", id>>

\* ----------------------------------------------------------------- items
\* One element of a content list, by the keys it carries.
Video(v) == [kind |-> "video", vid |-> v, rid |-> 0, tok |-> None]
Reel(r) == [kind |-> "reel", vid |-> 0, rid |-> r, tok |-> None]
Both(v, r) == [kind |-> "both", vid |-> v, rid |-> r, tok |-> None]
Junk == [kind |-> "junk", vid |-> 0, rid |-> 0, tok |-> None]
Scalar == [kind |-> "scalar", vid |-> 0, rid |-> 0, tok |-> None]
Marker(t) == [kind |-> "marker", vid |-> 0, rid |-> 0, tok |-> t]

Items ==
    {Video(v) : v \in Ids} \cup {Reel(r) : r \in Ids}
    \cup {Both(v, r) : v \in Ids, r \in Ids}
    \cup {Junk, Scalar} \cup {Marker(t) : t \in Tokens}

\* A content node: absent, a JSON list of items, or JSON null.
Absent == [kind |-> "absent", items |-> <<>>]
NullNode == [kind |-> "null", items |-> <<>>]
ListOf(s) == [kind |-> "list", items |-> s]
UnboundVideos == [kind |-> "unbound", items |-> <<>>]

\* ------------------------------------------------------------- documents
NoTabs == [present |-> FALSE, list |-> <<>>]
TabsOf(s) == [present |-> TRUE, list |-> s]

\* A tab: "ok" carries the url string (and maybe a rich grid), "nokey" lacks
\* the tabRenderer/endpoint path, "badurl" carries a url that is no string.
OkTab(url, grid) == [kind |-> "ok", url |-> url, grid |-> grid]
NoKeyTab == [kind |-> "nokey", url |-> <<"">>, grid |-> Absent]
BadUrlTab == [kind |-> "badurl", url |-> <<"">>, grid |-> Absent]

DictDoc(tabs, visitor, bare) ==
    [root |-> "dict", tabs |-> tabs, visitor |-> visitor, bare |-> bare,
     wrapped |-> Absent]
ListDoc(wrapped) ==
    [root |-> "list", tabs |-> NoTabs, visitor |-> "missing", bare |-> Absent,
     wrapped |-> wrapped]
ScalarDoc ==
    [root |-> "scalar", tabs |-> NoTabs, visitor |-> "missing", bare |-> Absent,
     wrapped |-> Absent]

RECURSIVE SeqsUpTo(_, _)
SeqsUpTo(S, n) ==
    IF n = 0 THEN {<<>>}
    ELSE LET shorter == SeqsUpTo(S, n - 1)
         IN shorter \cup {Append(s, x) : s \in shorter, x \in S}

\* Shape-oriented documents: every combination of the three shapes, over a
\* few distinguishable content lists.
GridA == ListOf(<<Video(1)>>)
GridB == ListOf(<<Video(2), Marker("T1")>>)
BareC == ListOf(<<Reel(NumIds)>>)
TabUrls == {<<"", "@channel", "videos">>, <<"", "c", "other", "shorts">>}
ShapeTabs ==
    {NoKeyTab, BadUrlTab}
    \cup {OkTab(u, g) : u \in TabUrls, g \in {Absent, GridA, GridB}}
ShapeDocs ==
    {DictDoc(t, v, b) :
        t \in {NoTabs} \cup {TabsOf(s) : s \in SeqsUpTo(ShapeTabs, MaxTabs)},
        v \in {"missing"} \cup Visitors,
        b \in {Absent, BareC}}
    \cup {ListDoc(w) : w \in {Absent, BareC, GridB}}
    \cup {ScalarDoc}

\* Item-oriented documents: every item list up to n items, in a bare
\* continuation response, plus the non-list content node.
ItemDocs(n) ==
    {DictDoc(NoTabs, "missing", ListOf(s)) : s \in SeqsUpTo(Items, n)}
    \cup {DictDoc(NoTabs, "missing", NullNode)}
    \cup {DictDoc(TabsOf(<<OkTab(<<"", "@channel", "videos">>, ListOf(s))>>), "V1", Absent) :
            s \in SeqsUpTo(Items, 1)}
    \cup {ListDoc(ListOf(s)) : s \in SeqsUpTo(Items, 1)}

\* ------------------------------------------------- _extract_videos, pieces
\* The outcome of one try block: exc = "" when it ran to its end.
Outcome(exc, videos, visitor) ==
    [exc |-> exc, videos |-> videos, visitor |-> visitor]

\* The loop over the tabs: the index of the tab made active_tab (0 when the
\* loop ends without a match and active_tab stays {}), or the exception of
\* the first tab whose url cannot be read or split.
\* Mutant: the loop without its break, so the last matching tab wins.
RECURSIVE FindActiveTab_NoBreak(_, _, _)
FindActiveTab_NoBreak(tabs, url, i) ==
    IF i > Len(tabs) THEN [exc |-> "", tab |-> 0]
    ELSE IF tabs[i].kind = "nokey" THEN [exc |-> "KeyError", tab |-> 0]
    ELSE IF tabs[i].kind = "badurl" THEN [exc |-> "AttributeError", tab |-> 0]
    ELSE LET rest == FindActiveTab_NoBreak(tabs, url, i + 1)
         IN IF rest.exc # "" \/ rest.tab # 0 THEN rest
            ELSE IF RsplitLast(tabs[i].url) = RsplitLast(url)
            THEN [exc |-> "", tab |-> i]
            ELSE rest

RECURSIVE FindActiveTab(_, _, _)
FindActiveTab(tabs, url, i) ==
    IF i > Len(tabs) THEN [exc |-> "", tab |-> 0]
    ELSE IF tabs[i].kind = "nokey" THEN [exc |-> "KeyError", tab |-> 0]
    ELSE IF tabs[i].kind = "badurl" THEN [exc |-> "AttributeError", tab |-> 0]
    ELSE IF RsplitLast(tabs[i].url) = RsplitLast(url) THEN [exc |-> "", tab |-> i]
    ELSE FindActiveTab(tabs, url, i + 1)

\* Mutant: the visitor data is read and stored before the tabs are searched.
FullPage_VisitorFirst(doc, url, old_visitor) ==
    IF doc.root # "dict" THEN Outcome("TypeError", UnboundVideos, old_visitor)
    ELSE IF doc.visitor = "missing" THEN Outcome("KeyError", UnboundVideos, old_visitor)
    ELSE IF ~doc.tabs.present THEN Outcome("KeyError", UnboundVideos, doc.visitor)
    ELSE LET f == FindActiveTab(doc.tabs.list, url, 1)
         IN IF f.exc # "" THEN Outcome(f.exc, UnboundVideos, doc.visitor)
            ELSE IF f.tab = 0 THEN Outcome("KeyError", UnboundVideos, doc.visitor)
            ELSE LET grid == doc.tabs.list[f.tab].grid
                 IN IF grid.kind = "absent"
                    THEN Outcome("KeyError", UnboundVideos, doc.visitor)
                    ELSE Outcome("", grid, doc.visitor)

\* The first try block: the tab loop, then videos, then the visitor data.
\* videos is assigned before the visitor data is read.
FullPage(doc, url, old_visitor) ==
    IF doc.root # "dict" THEN Outcome("TypeError", UnboundVideos, old_visitor)
    ELSE IF ~doc.tabs.present THEN Outcome("KeyError", UnboundVideos, old_visitor)
    ELSE LET f == FindActiveTab(doc.tabs.list, url, 1)
         IN IF f.exc # "" THEN Outcome(f.exc, UnboundVideos, old_visitor)
            ELSE IF f.tab = 0 THEN Outcome("KeyError", UnboundVideos, old_visitor)
            ELSE LET grid == doc.tabs.list[f.tab].grid
                 IN IF grid.kind = "absent"
                    THEN Outcome("KeyError", UnboundVideos, old_visitor)
                    ELSE IF doc.visitor = "missing"
                    THEN Outcome("KeyError", grid, old_visitor)
                    ELSE Outcome("", grid, doc.visitor)

\* The second try block: initial_data[1]["response"][...]["continuationItems"].
Wrapped(doc) ==
    IF doc.root = "scalar" THEN Outcome("TypeError", UnboundVideos, None)
    ELSE IF doc.root = "dict" THEN Outcome("KeyError", UnboundVideos, None)
    ELSE IF doc.wrapped.kind = "absent" THEN Outcome("IndexError", UnboundVideos, None)
    ELSE Outcome("", doc.wrapped, None)

\* The third try block: initial_data["onResponseReceivedActions"][0][...].
Bare(doc) ==
    IF doc.root # "dict" THEN Outcome("TypeError", UnboundVideos, None)
    ELSE IF doc.bare.kind = "absent" THEN Outcome("KeyError", UnboundVideos, None)
    ELSE Outcome("", doc.bare, None)

\* The exceptions a handler catches.
StructuralErrors == {"KeyError", "IndexError", "TypeError"}
ContinuationErrors == {"KeyError", "IndexError"}

\* videos[-1]["continuationItemRenderer"][...]["token"], then videos[:-1].
ContinuationStep(videos) ==
    IF videos.kind = "null"
    THEN [exc |-> "TypeError", continuation |-> Unbound, videos |-> videos]
    ELSE IF Len(videos.items) = 0
    THEN [exc |-> "IndexError", continuation |-> Unbound, videos |-> videos]
    ELSE LET last == videos.items[Len(videos.items)]
         IN IF last.kind = "scalar"
            THEN [exc |-> "TypeError", continuation |-> Unbound, videos |-> videos]
            ELSE IF last.kind # "marker"
            THEN [exc |-> "KeyError", continuation |-> Unbound, videos |-> videos]
            ELSE [exc |-> "", continuation |-> last.tok,
                  videos |-> ListOf(SubSeq(videos.items, 1, Len(videos.items) - 1))]

\* x['richItemRenderer']['content'][renderer]['videoId'] of one item.
VideoIdOf(x, renderer) ==
    IF x.kind = "scalar" THEN [exc |-> "TypeError", id |-> 0]
    ELSE IF renderer = "videoRenderer" /\ x.kind \in {"video", "both"}
    THEN [exc |-> "", id |-> x.vid]
    ELSE IF renderer = "reelItemRenderer" /\ x.kind \in {"reel", "both"}
    THEN [exc |-> "", id |-> x.rid]
    ELSE [exc |-> "KeyError", id |-> 0]

\* for x in videos: videos_url.append(...), from item k on, appending to acc:
\* the loop stops at the first item that raises and acc keeps what it has.
RECURSIVE AppendIds(_, _, _, _)
AppendIds(items, renderer, k, acc) ==
    IF k > Len(items) THEN [exc |-> "", videos_url |-> acc]
    ELSE LET r == VideoIdOf(items[k], renderer)
         IN IF r.exc # "" THEN [exc |-> r.exc, videos_url |-> acc]
            ELSE AppendIds(items, renderer, k + 1, Append(acc, WatchUrl(r.id)))

\* pytube.helpers.uniqueify: duplicates removed, first occurrences kept in
\* order.
RECURSIVE uniqueify(_)
uniqueify(s) ==
    IF s = <<>> THEN <<>>
    ELSE LET front == uniqueify(SubSeq(s, 1, Len(s) - 1))
             x == s[Len(s)]
         IN IF \E j \in 1..Len(front) : front[j] = x THEN front ELSE Append(front, x)

\* The body of the post request of _build_continuation_url.
ContinuationBody(continuation_arg, visitor) ==
    [continuation |-> continuation_arg, clientName |-> "WEB",
     visitorData |-> visitor, clientVersion |-> "2.20200720.00.02"]
NoRequest ==
    [continuation |-> None, clientName |-> "", visitorData |-> None,
     clientVersion |-> ""]

\* ----------------------------------------------------------------- state
VARIABLES
    html_url,       \* self._html_url
    html,           \* self._html: the url whose page is cached, or NoHtml
    visitor_data,   \* self._visitor_data
    pc,             \* position of the running _extract_videos call
    initial_data,   \* its parsed document
    videos,         \* its local videos
    continuation,   \* its local continuation
    videos_url,     \* its local videos_url
    result,         \* what it returned
    exc,            \* the exception it raised
    tried,          \* history: the try blocks entered, in order
    located,        \* history: videos as the successful try block left it
    session,        \* history: visitor data of the last full-page location
    request,        \* the last body built by _build_continuation_url
    seqs,           \* the lazily produced sequences handed out
    consumer        \* the sequence whose consumption runs the call, or 0

vars ==
    <<html_url, html, visitor_data, pc, initial_data, videos, continuation,
      videos_url, result, exc, tried, located, session, request, seqs, consumer>>

frame == <<pc, initial_data, videos, continuation, videos_url, result, exc,
           tried, located>>
self_vars == <<html_url, html, visitor_data>>

NoResult == [ids |-> <<>>, token |-> Unbound]
Returned(ids, token) == [ids |-> ids, token |-> token]

\* The tab whose url the loop of the full-page strategy stops at with a
\* match: every tab before it has a url string that does not match.
IsFirstMatch(tabs, url, j) ==
    /\ j \in 1..Len(tabs)
    /\ tabs[j].kind = "ok"
    /\ RsplitLast(tabs[j].url) = RsplitLast(url)
    /\ \A i \in 1..(j - 1) :
          tabs[i].kind = "ok" /\ RsplitLast(tabs[i].url) # RsplitLast(url)

\* The document has the full-page shape for the tab selected by url.
FullPageShape(doc, url) ==
    /\ doc.root = "dict"
    /\ doc.tabs.present
    /\ \E j \in 1..Len(doc.tabs.list) :
          /\ IsFirstMatch(doc.tabs.list, url, j)
          /\ doc.tabs.list[j].grid.kind # "absent"
    /\ doc.visitor # "missing"

Init ==
    /\ html_url = channel_videos_url
    /\ html = NoHtml
    /\ visitor_data = None
    /\ pc = "idle"
    /\ initial_data = ScalarDoc
    /\ videos = UnboundVideos
    /\ continuation = Unbound
    /\ videos_url = <<>>
    /\ result = NoResult
    /\ exc = ""
    /\ tried = <<>>
    /\ located = UnboundVideos
    /\ session = None
    /\ request = NoRequest
    /\ seqs = <<>>
    /\ consumer = 0

\* A fresh frame of _extract_videos(raw_json) after json.loads.
Enter(doc) ==
    /\ initial_data' = doc
    /\ pc' = "full"
    /\ videos' = UnboundVideos
    /\ continuation' = Unbound
    /\ videos_url' = <<>>
    /\ result' = NoResult
    /\ exc' = ""
    /\ tried' = <<>>
    /\ located' = UnboundVideos
    /\ request' = NoRequest
    /\ session' = IF FullPageShape(doc, html_url) THEN doc.visitor ELSE session

\* _extract_videos is called on a document of the set docs.
Call(docs) ==
    /\ pc = "idle"
    /\ \E doc \in docs : Enter(doc)
    /\ consumer' = 0
    /\ UNCHANGED <<self_vars, seqs>>

\* except (KeyError, IndexError, TypeError) of a try block, or propagation.
Raise(e) ==
    /\ pc' = "raised"
    /\ exc' = e
    /\ UNCHANGED <<continuation, videos_url, result>>

TryFullPage ==
    /\ pc = "full"
    /\ tried' = Append(tried, "full")
    /\ LET o == FullPage(initial_data, html_url, visitor_data)
       IN /\ videos' = o.videos
          /\ visitor_data' = o.visitor
          /\ IF o.exc = ""
             THEN /\ pc' = "cont"
                  /\ located' = o.videos
                  /\ UNCHANGED <<continuation, videos_url, result, exc>>
             ELSE IF o.exc \in StructuralErrors
             THEN /\ pc' = "wrapped"
                  /\ UNCHANGED <<continuation, videos_url, result, exc, located>>
             ELSE Raise(o.exc) /\ UNCHANGED located
    /\ UNCHANGED <<html_url, html, initial_data, session, request, seqs, consumer>>

TryWrapped ==
    /\ pc = "wrapped"
    /\ tried' = Append(tried, "wrapped")
    /\ LET o == Wrapped(initial_data)
       IN IF o.exc = ""
          THEN /\ pc' = "cont"
               /\ videos' = o.videos
               /\ located' = o.videos
               /\ UNCHANGED <<continuation, videos_url, result, exc>>
          ELSE IF o.exc \in StructuralErrors
          THEN /\ pc' = "bare"
               /\ UNCHANGED <<videos, continuation, videos_url, result, exc, located>>
          ELSE Raise(o.exc) /\ UNCHANGED <<videos, located>>
    /\ UNCHANGED <<self_vars, initial_data, session, request, seqs, consumer>>

TryBare ==
    /\ pc = "bare"
    /\ tried' = Append(tried, "bare")
    /\ LET o == Bare(initial_data)
       IN IF o.exc = ""
          THEN /\ pc' = "cont"
               /\ videos' = o.videos
               /\ located' = o.videos
               /\ UNCHANGED <<continuation, videos_url, result, exc>>
          ELSE IF o.exc \in StructuralErrors
          THEN /\ pc' = "done"
               /\ result' = Returned(<<>>, None)
               /\ UNCHANGED <<videos, continuation, videos_url, exc, located>>
          ELSE Raise(o.exc) /\ UNCHANGED <<videos, located>>
    /\ UNCHANGED <<self_vars, initial_data, session, request, seqs, consumer>>

Continuation ==
    /\ pc = "cont"
    /\ LET c == ContinuationStep(videos)
       IN IF c.exc = ""
          THEN /\ pc' = "pass1"
               /\ continuation' = c.continuation
               /\ videos' = c.videos
               /\ UNCHANGED <<videos_url, result, exc>>
          ELSE IF c.exc \in ContinuationErrors
          THEN /\ pc' = "pass1"
               /\ continuation' = None
               /\ UNCHANGED <<videos, videos_url, result, exc>>
          ELSE Raise(c.exc) /\ UNCHANGED videos
    /\ UNCHANGED <<self_vars, initial_data, tried, located, session, request,
                   seqs, consumer>>

\* The first for loop ("Extract id from videos and live").
Pass1 ==
    /\ pc = "pass1"
    /\ LET r == AppendIds(videos.items, "videoRenderer", 1, <<>>)
       IN /\ videos_url' = r.videos_url
          /\ IF r.exc = ""
             THEN /\ pc' = "done"
                  /\ result' = Returned(uniqueify(r.videos_url), continuation)
                  /\ UNCHANGED exc
             ELSE IF r.exc \in StructuralErrors
             THEN /\ pc' = "pass2"
                  /\ UNCHANGED <<result, exc>>
             ELSE /\ pc' = "raised"
                  /\ exc' = r.exc
                  /\ UNCHANGED result
    /\ UNCHANGED <<self_vars, initial_data, videos, continuation, tried, located,
                   session, request, seqs, consumer>>

\* The second for loop ("Extract id from short videos"), in the handler of
\* the first: nothing catches what it raises.
Pass2 ==
    /\ pc = "pass2"
    /\ LET r == AppendIds(videos.items, "reelItemRenderer", 1, videos_url)
       IN /\ videos_url' = r.videos_url
          /\ IF r.exc = ""
             THEN /\ pc' = "done"
                  /\ result' = Returned(uniqueify(r.videos_url), continuation)
                  /\ UNCHANGED exc
             ELSE /\ pc' = "raised"
                  /\ exc' = r.exc
                  /\ UNCHANGED result
    /\ UNCHANGED <<self_vars, initial_data, videos, continuation, tried, located,
                   session, request, seqs, consumer>>

\* _build_continuation_url(continuation): the body of the next request.
BuildContinuationUrl ==
    /\ pc = "done"
    /\ result.token \in Tokens
    /\ request' = ContinuationBody(result.token, visitor_data)
    /\ UNCHANGED <<self_vars, frame, session, seqs, consumer>>

\* ------------------------------------------------------- the html_url switch
\* The call is over: its result or exception went to the caller and its
\* frame is gone.
ReturnToCaller ==
    /\ pc \in {"done", "raised"}
    /\ pc' = "idle"
    /\ initial_data' = ScalarDoc
    /\ videos' = UnboundVideos
    /\ continuation' = Unbound
    /\ videos_url' = <<>>
    /\ result' = NoResult
    /\ exc' = ""
    /\ tried' = <<>>
    /\ located' = UnboundVideos
    /\ request' = NoRequest
    /\ consumer' = 0
    /\ UNCHANGED <<self_vars, session, seqs>>

\* The html_url setter: a new value clears the cached page.
HtmlUrlSet(value) ==
    /\ html_url' = value
    /\ html' = IF html_url # value THEN NoHtml ELSE html

\* The html property after the setter ran with value: the cached page, or
\* request.get(self.html_url).
HtmlGet(value) ==
    LET cleared == IF html_url # value THEN NoHtml ELSE html
    IN IF cleared # NoHtml THEN cleared ELSE value

\* self.html_url = value, from any of the properties that assign it.
html_url_setter ==
    /\ pc = "idle"
    /\ \E value \in {channel_videos_url, channel_shorts_url, channel_live_url,
                     channel_url, channel_about_url} : HtmlUrlSet(value)
    /\ UNCHANGED <<visitor_data, frame, session, request, seqs, consumer>>

\* A property that switches html_url and returns a lazy sequence.
TabProperty(url) ==
    /\ pc = "idle"
    /\ Len(seqs) < MaxSeqs
    /\ HtmlUrlSet(url)
    /\ seqs' = Append(seqs, [tab |-> url, state |-> "new"])
    /\ UNCHANGED <<visitor_data, frame, session, request, consumer>>

videos_property == TabProperty(channel_videos_url)
shorts_property == TabProperty(channel_shorts_url)
live_property == TabProperty(channel_live_url)

\* A property that switches html_url and reads initial_data at once.
MetadataProperty(url) ==
    /\ pc = "idle"
    /\ html_url' = url
    /\ html' = HtmlGet(url)
    /\ UNCHANGED <<visitor_data, frame, session, request, seqs, consumer>>

title_property == MetadataProperty(channel_url)
description_property == MetadataProperty(channel_url)
length_property == MetadataProperty(channel_url)
views_property == MetadataProperty(channel_about_url)

\* What the site serves for a channel url: every tab, and the grid of the
\* tab the url selects.
SiteItems(name) ==
    CASE name = "videos" -> <<Video(1), Video(2), Marker("T1")>>
      [] name = "shorts" -> <<Reel(NumIds), Reel(1)>>
      [] OTHER -> <<Video(2)>>
SiteTab(name, url) ==
    OkTab(<<"", "@channel", name>>,
          IF RsplitLast(url) = name THEN ListOf(SiteItems(name)) ELSE Absent)
PageFor(url) ==
    DictDoc(TabsOf(<<SiteTab("videos", url), SiteTab("shorts", url),
                     SiteTab("streams", url)>>), "V1", Absent)

\* The first element of a sequence is asked for: its generator starts, reads
\* self.html and extracts the page.
Consume(s) ==
    /\ pc = "idle"
    /\ seqs[s].state = "new"
    /\ seqs' = [seqs EXCEPT ![s].state = "started"]
    /\ html' = IF html # NoHtml THEN html ELSE html_url
    /\ Enter(PageFor(html'))
    /\ consumer' = s
    /\ UNCHANGED <<html_url, visitor_data>>

\* ---------------------------------------------------------- specifications
Steps ==
    \/ TryFullPage
    \/ TryWrapped
    \/ TryBare
    \/ Continuation
    \/ Pass1
    \/ Pass2
    \/ ReturnToCaller

\* Calls on documents of every shape, under every tab selection.
Next ==
    \/ Call(ShapeDocs)
    \/ Steps
    \/ BuildContinuationUrl
    \/ html_url_setter
Spec == Init /\ [][Next]_vars

\* Calls on documents holding every item list.
NextItems ==
    \/ Call(ItemDocs(MaxItems))
    \/ Steps
    \/ BuildContinuationUrl
SpecItems == Init /\ [][NextItems]_vars

\* One Channel whose properties are read and whose sequences are consumed in
\* any order.
NextChannel ==
    \/ videos_property
    \/ shorts_property
    \/ live_property
    \/ title_property
    \/ description_property
    \/ length_property
    \/ views_property
    \/ \E s \in 1..Len(seqs) : Consume(s)
    \/ Steps
SpecChannel == Init /\ [][NextChannel]_vars

\* ------------------------------------------------------------ the shapes
\* The tab loop meets a url that is no string before any match.
TabLoopRaises(tabs, url) ==
    \E j \in 1..Len(tabs) :
        /\ tabs[j].kind = "badurl"
        /\ \A i \in 1..(j - 1) :
              tabs[i].kind = "ok" /\ RsplitLast(tabs[i].url) # RsplitLast(url)

\* The full-page strategy fails with a missing key, a wrong type or an index
\* out of range.
FullFailsStructurally(doc, url) ==
    /\ ~FullPageShape(doc, url)
    /\ ~(doc.root = "dict" /\ doc.tabs.present /\ TabLoopRaises(doc.tabs.list, url))
WrappedShape(doc) == doc.root = "list" /\ doc.wrapped.kind # "absent"
BareShape(doc) == doc.root = "dict" /\ doc.bare.kind # "absent"
AllStrategiesFail(doc, url) ==
    /\ FullFailsStructurally(doc, url)
    /\ ~WrappedShape(doc)
    /\ ~BareShape(doc)

Located == pc \in {"cont", "pass1", "pass2"} \/ (pc \in {"done", "raised"} /\ located.kind # "unbound")
Finished == pc \in {"done", "raised"}
StrategyOrder == <<"full", "wrapped", "bare">>

\* ---------------------------------------------------------------- claims
\* C1: for every document on which all three location strategies fail
\* structurally (a missing key, a node of the wrong type, an index out of
\* range) the call returns exactly ([], None) and raises nothing.
NoStrategyLocates(doc, url) ==
    /\ ~FullPageShape(doc, url)
    /\ ~WrappedShape(doc)
    /\ ~BareShape(doc)
C1_AllFailReturnsEmpty ==
    (pc \in {"cont", "pass1", "pass2", "done", "raised"}
        /\ NoStrategyLocates(initial_data, html_url))
    => (pc = "done" /\ result = Returned(<<>>, None) /\ exc = "")

\* C4: a full-page document whose tabs hold a matching tab with a rich grid
\* has that grid located, with or without the visitor data.
MatchingGridTab(doc, url) ==
    /\ doc.root = "dict"
    /\ doc.tabs.present
    /\ \E j \in 1..Len(doc.tabs.list) :
          /\ IsFirstMatch(doc.tabs.list, url, j)
          /\ doc.tabs.list[j].grid.kind = "list"
C4_LocatesWithoutVisitorData ==
    (pc \in {"cont", "pass1", "pass2", "done", "raised"}
        /\ MatchingGridTab(initial_data, html_url))
    => /\ tried = <<"full">>
       /\ \E j \in 1..Len(initial_data.tabs.list) :
             /\ IsFirstMatch(initial_data.tabs.list, html_url, j)
             /\ located = initial_data.tabs.list[j].grid

\* C6: the strategies are tried in the order full-page, wrapped, bare; a
\* later one only after the earlier ones failed structurally; the list used
\* is that of the first one that succeeds, and in the full-page strategy it
\* is the grid of the first tab whose url ends like html_url.
C6_FirstStrategyWins ==
    /\ \E n \in 0..3 : tried = SubSeq(StrategyOrder, 1, n)
    /\ (Len(tried) >= 2 \/ pc = "wrapped") => FullFailsStructurally(initial_data, html_url)
    /\ (Len(tried) >= 3 \/ pc = "bare") => ~WrappedShape(initial_data)
    /\ (Located /\ tried = <<"full">>) =>
          /\ FullPageShape(initial_data, html_url)
          /\ \E j \in 1..Len(initial_data.tabs.list) :
                /\ IsFirstMatch(initial_data.tabs.list, html_url, j)
                /\ located = initial_data.tabs.list[j].grid
    /\ (Located /\ tried = <<"full", "wrapped">>) =>
          (WrappedShape(initial_data) /\ located = initial_data.wrapped)
    /\ (Located /\ tried = StrategyOrder) =>
          (BareShape(initial_data) /\ located = initial_data.bare)
    /\ (Finished /\ ~Located /\ exc = "") => AllStrategiesFail(initial_data, html_url)
    /\ pc = "cont" => videos = located

\* Two tabs match, with different grids, and a bare list is there as well:
\* the first tab's grid was taken.
C6_Witness ==
    /\ pc = "cont"
    /\ tried = <<"full">>
    /\ Len(initial_data.tabs.list) = 2
    /\ \A j \in 1..2 :
          /\ initial_data.tabs.list[j].kind = "ok"
          /\ RsplitLast(initial_data.tabs.list[j].url) = RsplitLast(html_url)
    /\ initial_data.tabs.list[1].grid.kind = "list"
    /\ initial_data.tabs.list[2].grid.kind = "list"
    /\ initial_data.tabs.list[1].grid # initial_data.tabs.list[2].grid
    /\ initial_data.bare.kind = "list"
    /\ videos = initial_data.tabs.list[1].grid

\* C8: the stored visitor data, and the visitorData of every body built by
\* _build_continuation_url, is that of the most recent call whose full-page
\* strategy located its list (None before any); calls that locate through
\* the wrapped or bare strategy, or locate nothing, leave it unchanged.
C8_VisitorDataOfLastFullPage ==
    /\ pc # "full" => visitor_data = session
    /\ request # NoRequest =>
          /\ request.visitorData = session
          /\ request.continuation = result.token
          /\ request.clientName = "WEB"

\* A wrapped continuation response was extracted and the next request
\* carries the visitor data an earlier full page left.
C8_Witness ==
    /\ request # NoRequest
    /\ tried = <<"full", "wrapped">>
    /\ request.visitorData = "V2"
    /\ visitor_data = "V2"

\* -------------------------------------------------------- the item lists
HasMarker(items) == Len(items) > 0 /\ items[Len(items)].kind = "marker"
Remaining(items) ==
    IF HasMarker(items) THEN SubSeq(items, 1, Len(items) - 1) ELSE items
TokenOf(items) == IF HasMarker(items) THEN items[Len(items)].tok ELSE None
HasVideoPath(x) == x.kind \in {"video", "both"}
HasReelPath(x) == x.kind \in {"reel", "both"}
VideoIds(items) == [i \in 1..Len(items) |-> WatchUrl(items[i].vid)]
ReelIds(items) == [i \in 1..Len(items) |-> WatchUrl(items[i].rid)]
IdsCarried(x) ==
    (IF HasVideoPath(x) THEN {WatchUrl(x.vid)} ELSE {})
    \cup (IF HasReelPath(x) THEN {WatchUrl(x.rid)} ELSE {})
NoDuplicates(s) == \A i, j \in 1..Len(s) : i # j => s[i] # s[j]
FirstPos(s, x) == CHOOSE i \in 1..Len(s) : s[i] = x /\ \A j \in 1..(i - 1) : s[j] # x
\* out is in_ with every repeat dropped and first occurrences kept in order.
IsStableDedup(out, in_) ==
    /\ NoDuplicates(out)
    /\ {out[i] : i \in 1..Len(out)} = {in_[i] : i \in 1..Len(in_)}
    /\ \A i, j \in 1..Len(out) : i < j => FirstPos(in_, out[i]) < FirstPos(in_, out[j])

\* C2: one item of the located list lacks the identifier fields and the
\* others are well formed: that item alone is skipped, the identifiers of
\* the others are returned in order and nothing is raised.
OneBadRestGood(items, kind) ==
    /\ Len(items) >= 2
    /\ \E b \in 1..Len(items) :
          /\ items[b].kind = "junk"
          /\ \A i \in 1..Len(items) : i # b => items[i].kind = kind
GoodIds(items, kind) ==
    LET good == SelectSeq(items, LAMBDA x : x.kind = kind)
    IN IF kind = "video" THEN VideoIds(good) ELSE ReelIds(good)
C2_BadItemSkipped ==
    \A kind \in {"video", "reel"} :
        (Finished /\ located.kind = "list"
            /\ OneBadRestGood(Remaining(located.items), kind))
        => /\ pc = "done"
           /\ IsStableDedup(result.ids, GoodIds(Remaining(located.items), kind))

\* C3: neither the full-video path nor the short-form path applies to the
\* located list (here a list of JSON objects): the call returns no
\* identifier, with the token of the trailing marker if there is one, and
\* raises nothing.
NeitherPathApplies(items) ==
    /\ \A i \in 1..Len(items) : items[i].kind # "scalar"
    /\ \E i \in 1..Len(items) : ~HasVideoPath(items[i])
    /\ \E i \in 1..Len(items) : ~HasReelPath(items[i])
C3_NeitherPathReturnsToken ==
    (Finished /\ located.kind = "list" /\ NeitherPathApplies(Remaining(located.items)))
    => /\ pc = "done"
       /\ result = Returned(<<>>, TokenOf(located.items))

\* C5: for every located item list the token is captured exactly when the
\* last item is a continuation marker, and then that item is removed before
\* the identifiers are read; otherwise the token is None and nothing is
\* removed. An empty list yields ([], None), a lone marker ([], token).
C5_TokenIffTrailingMarker ==
    /\ (pc \in {"pass1", "pass2", "done", "raised"} /\ located.kind = "list") =>
          /\ continuation = TokenOf(located.items)
          /\ videos = ListOf(Remaining(located.items))
    /\ (Finished /\ located = ListOf(<<>>)) =>
          (pc = "done" /\ result = Returned(<<>>, None))
    /\ \A t \in Tokens :
          (Finished /\ located = ListOf(<<Marker(t)>>)) =>
              (pc = "done" /\ result = Returned(<<>>, t))

\* C7: the returned identifiers come all from the full-video path or all
\* from the short-form path, one per item at most; identifiers of a partly
\* completed full-video pass never stand next to those of the short-form
\* pass.
C7_AllOrNothingFallback ==
    (pc = "done" /\ located.kind = "list") =>
        LET items == Remaining(located.items)
        IN \/ /\ \A i \in 1..Len(items) : HasVideoPath(items[i])
              /\ IsStableDedup(result.ids, VideoIds(items))
           \/ /\ \A i \in 1..Len(items) : HasReelPath(items[i])
              /\ IsStableDedup(result.ids, ReelIds(items))

\* C9: the returned list holds each identifier once, in the order of its
\* first occurrence in the page's item list; items are never reordered.
\* Stated under either way of counting an item's identifiers: the result is
\* one identifier per item, in item order, with the repeats dropped; or it
\* holds identifiers the items carry, each once, ordered by the first item
\* that carries them.
OneIdPerItem(items) ==
    {g \in [1..Len(items) -> {WatchUrl(id) : id \in Ids}] :
        \A i \in 1..Len(items) : g[i] \in IdsCarried(items[i])}
FirstItem(items, id) ==
    CHOOSE i \in 1..Len(items) :
        /\ id \in IdsCarried(items[i])
        /\ \A j \in 1..(i - 1) : id \notin IdsCarried(items[j])
InFirstItemOrder(ids, items) ==
    /\ NoDuplicates(ids)
    /\ \A p \in 1..Len(ids) : \E i \in 1..Len(items) : ids[p] \in IdsCarried(items[i])
    /\ \A p, q \in 1..Len(ids) :
          p < q => FirstItem(items, ids[p]) <= FirstItem(items, ids[q])
C9_OnceInFirstSeenOrder ==
    (pc = "done" /\ located.kind = "list") =>
        LET items == Remaining(located.items)
        IN \/ \E g \in OneIdPerItem(items) : IsStableDedup(result.ids, g)
           \/ InFirstItemOrder(result.ids, items)

\* C10: a sequence obtained from one tab's property yields that tab's items
\* whatever properties are read before it is consumed: the page fetched and
\* the tab matched are those of the property that created the sequence.
C10_SequenceKeepsItsTab ==
    consumer # 0 =>
        /\ html = seqs[consumer].tab
        /\ html_url = seqs[consumer].tab
        /\ pc = "done" =>
              IsStableDedup(result.ids,
                  LET items == Remaining(SiteItems(RsplitLast(seqs[consumer].tab)))
                  IN IF RsplitLast(seqs[consumer].tab) = "shorts"
                     THEN ReelIds(items) ELSE VideoIds(items))

====
